---- MODULE Spec2Model ----
(***************************************************************************)
(* The filetree bubble of teacup: Bubble.Update, the input-mode state      *)
(* machine and the commands it hands to the bubbletea runtime.             *)
(*                                                                         *)
(* b        the Bubble value held by the host program                      *)
(* cmds     the commands returned by the last call of Update (tea.Batch    *)
(*          of the non-nil commands, in the order they were appended)      *)
(* fwd      the widget the last call of Update passed its message to       *)
(* msg      the message of the last call of Update: its type and, for a    *)
(*          key, the binding it matched                                    *)
(* ran      the commands the runtime ran to produce that message, each     *)
(*          with what it returned                                          *)
(***************************************************************************)
EXTENDS Integers, Sequences, FiniteSets, TLC

VARIABLES b, cmds, fwd, msg, ran, sel, help, style

vars == <<b, cmds, fwd, msg, ran, sel, help, style>>

\* ---------------------------------------------------------------- bounds
\* longest text typed into the prompt
MaxLen == 2

\* ------------------------------------------------------------- constants
idleState == "idleState"
createFileState == "createFileState"
createDirectoryState == "createDirectoryState"
deleteItemState == "deleteItemState"

States == {idleState, createFileState, createDirectoryState, deleteItemState}

CreateFilePlaceholder == "Enter name of new file"
CreateDirectoryPlaceholder == "Enter name of new directory"
DeleteItemPlaceholder == "Are you sure you want to delete (y/n)?"

CurrentDirectory == "dirfs.CurrentDirectory"
HomeDirectory == "dirfs.HomeDirectory"

\* the key bindings Update matches a key against, in the order of its switch
Bindings ==
    { "openDirectoryKey", "copyItemKey", "zipItemKey", "unzipItemKey",
      "createFileKey", "createDirectoryKey", "deleteItemKey",
      "toggleHiddenKey", "homeShortcutKey", "copyToClipboardKey",
      "escapeKey", "submitInputKey" }

\* the runes a key can type into the prompt
Alphabet == {"y", "Y", "n"}

\* what a key means to the widget it is passed to: a rune to type, a cursor
\* movement, a character deletion, or nothing
KeyEffects == Alphabet \cup {"up", "down", "backspace", "other"}

\* what a key of a binding can mean to a widget: a binding is a printing key
\* or one the listing moves its cursor on (the prompt ignores the second and
\* the listing the first, as both ignore a chord)
BoundKeyEffects == {"n", "down"}

\* file names of the entries a directory listing can hold
FileNames == {"a", "b"}
Listings == {<<>>, <<"a">>, <<"a", "b">>}

\* Item{}.FileName
NoFileName == ""

\* ------------------------------------------------------------- messages
KeyMsgs ==
    [type : {"tea.KeyMsg"}, bind : {"none"}, ch : KeyEffects]
        \cup [type : {"tea.KeyMsg"}, bind : Bindings, ch : BoundKeyEffects]

ListingMsg(l, isNil) == [type |-> "getDirectoryListingMsg", items |-> l, isNil |-> isNil]

\* a listing is a slice with entries, an empty slice or a nil slice
ListingMsgs == {ListingMsg(l, FALSE) : l \in Listings} \cup {ListingMsg(<<>>, TRUE)}

ErrorMsg == [type |-> "errorMsg", text |-> "error"]
ClipboardMsg == [type |-> "copyToClipboardMsg", text |-> "copied to clipboard"]
StatusTimeoutMsg == [type |-> "statusMessageTimeoutMsg"]
NoMsg == [type |-> "none", bind |-> ""]

\* what is kept of a message after the call: its type and, for a key, the
\* binding it matched
Seen(m) == [type |-> m.type, bind |-> IF m.type = "tea.KeyMsg" THEN m.bind ELSE ""]

\* ------------------------------------------------------------- commands
getDirectoryListingCmd(name, showHidden) ==
    [kind |-> "getDirectoryListingCmd", name |-> name, showHidden |-> showHidden]
copyItemCmd(name) == [kind |-> "copyItemCmd", name |-> name]
zipItemCmd(name) == [kind |-> "zipItemCmd", name |-> name]
unzipItemCmd(name) == [kind |-> "unzipItemCmd", name |-> name]
deleteItemCmd(name) == [kind |-> "deleteItemCmd", name |-> name]
copyToClipboardCmd(name) == [kind |-> "copyToClipboardCmd", name |-> name]
createFileCmd(value) == [kind |-> "createFileCmd", value |-> value]
createDirectoryCmd(value) == [kind |-> "createDirectoryCmd", value |-> value]
Blink == [kind |-> "textinput.Blink"]

MutatingKinds ==
    { "copyItemCmd", "zipItemCmd", "unzipItemCmd", "deleteItemCmd",
      "createFileCmd", "createDirectoryCmd" }

\* tea.Sequentially(first, second): one command that runs its commands in
\* order and returns the first message that is not nil
Sequentially(first, second) == [kind |-> "tea.Sequentially", cmds |-> <<first, second>>]

\* ------------------------------------------------------- status messages
statusMessageInfoStyle(text) == [style |-> "info", text |-> text]
statusMessageErrorStyle(text) == [style |-> "error", text |-> text]
NoStatus == [style |-> "", text |-> ""]

\* list.NewStatusMessage: shows the message at once; the command it returns
\* waits for the message's lifetime to end
NewStatusMessage(bb, s) == [bb EXCEPT !.statusMessage = s]
StatusCmd(s) == [kind |-> "list.NewStatusMessage", status |-> s]

\* ---------------------------------------------------------------- widgets
\* list.SelectedItem: the entry under the cursor, if there is one
HasSelectedItem(bb) == bb.cursor < Len(bb.items)

\* a list entry that is not an Item, and the nil list.Item
OtherItem == "<other>"
NilItem == "<nil>"

\* list.SelectedItem: the entry under the cursor, nil when there is none
SelectedItem(bb) == IF HasSelectedItem(bb) THEN bb.items[bb.cursor + 1] ELSE NilItem

\* the type assertion x.(Item) succeeds
IsItem(x) == x \notin {OtherItem, NilItem}

\* the selected entry whatever its type (no type assertion)
GetSelectedItemUnchecked(bb) == SelectedItem(bb)

\* Bubble.GetSelectedItem().FileName; Item{} has the empty name
GetSelectedItem(bb) ==
    LET selectedDir == SelectedItem(bb)
    IN  IF IsItem(selectedDir) THEN selectedDir ELSE NoFileName

\* list.SetItems
SetItems(bb, items) == [bb EXCEPT !.items = items]

Max(x, y) == IF x > y THEN x ELSE y

\* list.Update: the status message's timeout hides it, a key moves the
\* cursor, and the cursor is kept inside the listing
listUpdate(bb, m) ==
    LET hidden == IF m.type = "statusMessageTimeoutMsg"
                  THEN [bb EXCEPT !.statusMessage = NoStatus]
                  ELSE bb
        moved == IF m.type = "tea.KeyMsg" /\ m.ch = "up" /\ hidden.cursor > 0
                 THEN [hidden EXCEPT !.cursor = @ - 1]
                 ELSE IF m.type = "tea.KeyMsg" /\ m.ch = "down"
                         /\ hidden.cursor + 1 < Len(hidden.items)
                 THEN [hidden EXCEPT !.cursor = @ + 1]
                 ELSE hidden
    IN  IF moved.cursor > Len(moved.items) - 1
        THEN [moved EXCEPT !.cursor = Max(0, Len(moved.items) - 1)]
        ELSE moved

\* textinput.Update: an input that is not focused ignores every message; a
\* focused one takes the rune of a key, or deletes before the cursor
inputUpdate(bb, m) ==
    IF ~bb.focus \/ m.type # "tea.KeyMsg" THEN bb
    ELSE IF m.ch \in Alphabet THEN [bb EXCEPT !.value = Append(@, m.ch)]
    ELSE IF m.ch = "backspace" /\ Len(bb.value) > 0
    THEN [bb EXCEPT !.value = SubSeq(@, 1, Len(@) - 1)]
    ELSE bb

\* textinput.Focus, Blur, Reset
Focus(bb) == [bb EXCEPT !.focus = TRUE]
Blur(bb) == [bb EXCEPT !.focus = FALSE]
Reset(bb) == [bb EXCEPT !.value = <<>>]

\* strings.ToLower, rune by rune
ToLowerRune(c) == IF c = "Y" THEN "y" ELSE c
ToLower(s) == [i \in 1..Len(s) |-> ToLowerRune(s[i])]

\* --------------------------------------------------- Update, the key cases
\* what a case of the key switch leaves: the bubble, the commands appended,
\* and whether the case returned from Update
Case(bb, cs, ret) == [b |-> bb, cmds |-> cs, ret |-> ret]

openDirectoryCase(bb) ==
    IF ~bb.focus
    THEN Case(bb, <<getDirectoryListingCmd(GetSelectedItem(bb), bb.showHidden)>>, FALSE)
    ELSE Case(bb, <<>>, FALSE)

\* copy whose refresh lists the entry copied
copyItemCaseRefreshesItem(bb) ==
    IF ~bb.focus
    THEN LET s == statusMessageInfoStyle("Successfully copied file")
         IN  Case(NewStatusMessage(bb, s),
                  << Sequentially(copyItemCmd(GetSelectedItem(bb)),
                                  getDirectoryListingCmd(GetSelectedItem(bb), bb.showHidden)),
                     StatusCmd(s) >>,
                  FALSE)
    ELSE Case(bb, <<>>, FALSE)

copyItemCase(bb) ==
    IF ~bb.focus
    THEN LET s == statusMessageInfoStyle("Successfully copied file")
         IN  Case(NewStatusMessage(bb, s),
                  << Sequentially(copyItemCmd(GetSelectedItem(bb)),
                                  getDirectoryListingCmd(CurrentDirectory, bb.showHidden)),
                     StatusCmd(s) >>,
                  FALSE)
    ELSE Case(bb, <<>>, FALSE)

zipItemCase(bb) ==
    IF ~bb.focus
    THEN LET s == statusMessageInfoStyle("Successfully zipped item")
         IN  Case(NewStatusMessage(bb, s),
                  << Sequentially(zipItemCmd(GetSelectedItem(bb)),
                                  getDirectoryListingCmd(CurrentDirectory, bb.showHidden)),
                     StatusCmd(s) >>,
                  FALSE)
    ELSE Case(bb, <<>>, FALSE)

unzipItemCase(bb) ==
    IF ~bb.focus
    THEN LET s == statusMessageInfoStyle("Successfully unzipped item")
         IN  Case(NewStatusMessage(bb, s),
                  << Sequentially(unzipItemCmd(GetSelectedItem(bb)),
                                  getDirectoryListingCmd(CurrentDirectory, bb.showHidden)),
                     StatusCmd(s) >>,
                  FALSE)
    ELSE Case(bb, <<>>, FALSE)

\* new-file key that opens its prompt over another one
createFileCaseUnguarded(bb) ==
    Case([Focus(bb) EXCEPT !.placeholder = CreateFilePlaceholder,
                           !.state = createFileState],
         <<Blink>>, TRUE)

createFileCase(bb) ==
    IF ~bb.focus
    THEN Case([Focus(bb) EXCEPT !.placeholder = CreateFilePlaceholder,
                                !.state = createFileState],
              <<Blink>>, TRUE)
    ELSE Case(bb, <<>>, FALSE)

createDirectoryCase(bb) ==
    IF ~bb.focus
    THEN Case([Focus(bb) EXCEPT !.placeholder = CreateDirectoryPlaceholder,
                                !.state = createDirectoryState],
              <<Blink>>, TRUE)
    ELSE Case(bb, <<>>, FALSE)

\* delete key that goes on to the widgets
deleteItemCaseForwards(bb) ==
    IF ~bb.focus
    THEN Case([Focus(bb) EXCEPT !.placeholder = DeleteItemPlaceholder,
                                !.state = deleteItemState],
              <<Blink>>, FALSE)
    ELSE Case(bb, <<>>, FALSE)

deleteItemCase(bb) ==
    IF ~bb.focus
    THEN Case([Focus(bb) EXCEPT !.placeholder = DeleteItemPlaceholder,
                                !.state = deleteItemState],
              <<Blink>>, TRUE)
    ELSE Case(bb, <<>>, FALSE)

\* toggle that lists with the flag as it was
toggleHiddenCaseOldFlag(bb) ==
    IF ~bb.focus
    THEN LET t == [bb EXCEPT !.showHidden = ~bb.showHidden]
         IN  Case(t, <<getDirectoryListingCmd(CurrentDirectory, bb.showHidden)>>, FALSE)
    ELSE Case(bb, <<>>, FALSE)

toggleHiddenCase(bb) ==
    IF ~bb.focus
    THEN LET t == [bb EXCEPT !.showHidden = ~bb.showHidden]
         IN  Case(t, <<getDirectoryListingCmd(CurrentDirectory, t.showHidden)>>, FALSE)
    ELSE Case(bb, <<>>, FALSE)

homeShortcutCase(bb) ==
    IF ~bb.focus
    THEN Case(bb, <<getDirectoryListingCmd(HomeDirectory, bb.showHidden)>>, FALSE)
    ELSE Case(bb, <<>>, FALSE)

copyToClipboardCase(bb) ==
    IF ~bb.focus
    THEN Case(bb, <<copyToClipboardCmd(GetSelectedItem(bb))>>, FALSE)
    ELSE Case(bb, <<>>, FALSE)

\* escape that leaves the text typed in the prompt
escapeCaseKeepsText(bb) ==
    IF bb.focus
    THEN Case([Blur(bb) EXCEPT !.state = idleState], <<>>, FALSE)
    ELSE Case(bb, <<>>, FALSE)

escapeCase(bb) ==
    IF bb.focus
    THEN Case([Blur(Reset(bb)) EXCEPT !.state = idleState], <<>>, FALSE)
    ELSE Case(bb, <<>>, FALSE)

\* confirmation that tells "Y" from "y"
deleteConfirmedCaseSensitive(value) == value = <<"y">>

\* the confirmation a delete needs
deleteConfirmed(value) == ToLower(value) = <<"y">>

submitCreateFile(bb) ==
    LET s == statusMessageInfoStyle("Successfully created file")
    IN  Case(Reset(Blur(NewStatusMessage(bb, s))),
             << Sequentially(createFileCmd(bb.value),
                             getDirectoryListingCmd(CurrentDirectory, bb.showHidden)),
                StatusCmd(s) >>,
             FALSE)

submitCreateDirectory(bb) ==
    LET s == statusMessageInfoStyle("Successfully created directory")
    IN  Case(Reset(Blur(NewStatusMessage(bb, s))),
             << StatusCmd(s),
                Sequentially(createDirectoryCmd(bb.value),
                             getDirectoryListingCmd(CurrentDirectory, bb.showHidden)) >>,
             FALSE)

submitDeleteItem(bb) ==
    IF deleteConfirmed(bb.value)
    THEN LET s == statusMessageInfoStyle("Successfully deleted item")
         IN  Case(Reset(Blur(NewStatusMessage(bb, s))),
                  << StatusCmd(s),
                     Sequentially(deleteItemCmd(GetSelectedItem(bb)),
                                  getDirectoryListingCmd(CurrentDirectory, bb.showHidden)) >>,
                  FALSE)
    ELSE Case(Reset(Blur(bb)), <<>>, FALSE)

submitInputCase(bb) ==
    CASE bb.state = idleState -> Case(bb, <<>>, TRUE)
      [] bb.state = createFileState -> submitCreateFile(bb)
      [] bb.state = createDirectoryState -> submitCreateDirectory(bb)
      [] bb.state = deleteItemState -> submitDeleteItem(bb)

\* the switch on the key: the first binding that matches decides
keyCase(bb, m) ==
    CASE m.bind = "openDirectoryKey" -> openDirectoryCase(bb)
      [] m.bind = "copyItemKey" -> copyItemCase(bb)
      [] m.bind = "zipItemKey" -> zipItemCase(bb)
      [] m.bind = "unzipItemKey" -> unzipItemCase(bb)
      [] m.bind = "createFileKey" -> createFileCase(bb)
      [] m.bind = "createDirectoryKey" -> createDirectoryCase(bb)
      [] m.bind = "deleteItemKey" -> deleteItemCase(bb)
      [] m.bind = "toggleHiddenKey" -> toggleHiddenCase(bb)
      [] m.bind = "homeShortcutKey" -> homeShortcutCase(bb)
      [] m.bind = "copyToClipboardKey" -> copyToClipboardCase(bb)
      [] m.bind = "escapeKey" -> escapeCase(bb)
      [] m.bind = "submitInputKey" -> submitInputCase(bb)
      [] OTHER -> Case(bb, <<>>, FALSE)

\* ------------------------------------------------------------------ Update
\* what a call of Update returns, and the widget it passed the message to
Result(bb, cs, f) == [b |-> bb, cmds |-> cs, fwd |-> f]

\* switch that passes every message to the listing
forwardToList(bb, cs, m) == Result(listUpdate(bb, m), cs, "list")

\* the switch on the state that ends Update
forward(bb, cs, m) ==
    IF bb.state = idleState
    THEN Result(listUpdate(bb, m), cs, "list")
    ELSE Result(inputUpdate(bb, m), cs, "input")

\* status message that comes with a new listing of the current directory
returnWithStatusAndRefresh(bb, s) ==
    {Result(NewStatusMessage(bb, s),
            <<StatusCmd(s), getDirectoryListingCmd(CurrentDirectory, bb.showHidden)>>,
            "none")}

\* `return b, b.list.NewStatusMessage(s)`: Go fixes the order of the calls in
\* a return statement, not whether the variable b is read before or after
\* them, so the bubble returned has the message or has not
returnWithStatus(bb, s) ==
    {Result(NewStatusMessage(bb, s), <<StatusCmd(s)>>, "none"),
     Result(bb, <<StatusCmd(s)>>, "none")}

\* Bubble.Update: the results the call can return
Update(bb, m) ==
    CASE m.type = "getDirectoryListingMsg" ->
            {forward(IF ~m.isNil THEN SetItems(bb, m.items) ELSE bb, <<>>, m)}
      [] m.type = "copyToClipboardMsg" ->
            returnWithStatus(bb, statusMessageInfoStyle(m.text))
      [] m.type = "errorMsg" ->
            returnWithStatus(bb, statusMessageErrorStyle(m.text))
      [] m.type = "tea.KeyMsg" ->
            LET c == keyCase(bb, m)
            IN  IF c.ret THEN {Result(c.b, c.cmds, "none")}
                ELSE {forward(c.b, c.cmds, m)}
      [] OTHER -> {forward(bb, <<>>, m)}

\* ----------------------------------------------------------------- runtime
\* the commands of a batch that the runtime runs against the filesystem or
\* the clipboard; the others wait for a timer
FsKinds == {"tea.Sequentially", "getDirectoryListingCmd", "copyToClipboardCmd"}

\* a command that ran, and what it returned
Ran(c, m) == [cmd |-> c, returned |-> m.type]
Nil == [type |-> "nil"]

\* what running one filesystem command can return: errorMsg when it fails,
\* else nil from a mutating command and its message from the others
runCmd(c) ==
    {ErrorMsg} \cup
        CASE c.kind \in MutatingKinds -> {Nil}
          [] c.kind = "getDirectoryListingCmd" -> ListingMsgs
          [] c.kind = "copyToClipboardCmd" -> {ClipboardMsg}

\* tea.Sequentially runs its commands in order and returns the first message
\* that is not nil: the commands after that one do not run
runSequentially(c) ==
    LET first == c.cmds[1]
        second == c.cmds[2]
    IN  {[ran |-> <<Ran(first, m)>>, msg |-> m] : m \in runCmd(first) \ {Nil}}
            \cup {[ran |-> <<Ran(first, Nil), Ran(second, m)>>, msg |-> m] :
                    m \in {n \in runCmd(second) : Nil \in runCmd(first)}}

\* the runs of a command of a batch: the commands that ran and the message the
\* host program receives
run(c) ==
    IF c.kind = "tea.Sequentially" THEN runSequentially(c)
    ELSE {[ran |-> <<Ran(c, m)>>, msg |-> m] : m \in runCmd(c)}

\* the host program calls Update with m; the bubble and the commands it
\* returns replace the old ones
Call(m) ==
    \E r \in Update(b, m) :
        /\ Len(r.b.value) <= MaxLen
        /\ b' = r.b
        /\ cmds' = r.cmds
        /\ fwd' = r.fwd
        /\ msg' = Seen(m)
        /\ UNCHANGED <<sel, help, style>>

\* ----------------------------------------------------------------- actions
Key == (\E k \in KeyMsgs : Call(k)) /\ ran' = <<>>

\* a command of the batch Update returned last runs, and its message is the
\* next one the host program receives
RunCommand ==
    \E i \in 1..Len(cmds) :
        /\ cmds[i].kind \in FsKinds
        /\ \E o \in run(cmds[i]) : Call(o.msg) /\ ran' = o.ran

\* the message of a command started earlier arrives: commands run on their
\* own, and their messages arrive in any order
ListingReady == (\E m \in ListingMsgs : Call(m)) /\ ran' = <<>>

Failure == Call(ErrorMsg) /\ ran' = <<>>

ClipboardResult == Call(ClipboardMsg) /\ ran' = <<>>

\* the lifetime of the status message shown ends
StatusTimeout ==
    /\ b.statusMessage # NoStatus
    /\ Call(StatusTimeoutMsg)
    /\ ran' = <<>>

\* ------------------------------------------------------------- help bubble
\* help.go constants
padding == 1
keyWidth == 12

\* lipgloss.AdaptiveColor values and help.TitleColor values
NoColor == "none"
White == "#ffffff/#000000"
AdaptiveColors == {"63", "212"}
TitleColors ==
    {[Background |-> "62", Foreground |-> "230"],
     [Background |-> "212", Foreground |-> "0"]}

\* text is a sequence of characters, and help.Entry a pair of texts
Entry(k, d) == [Key |-> k, Description |-> d]
QuitEntry == Entry(<<"q">>, <<"q", "u", "i", "t">>)
UpEntry == Entry(<<"u", "p">>, <<"u", "p">>)
EntryLists == {<<>>, <<QuitEntry, UpEntry>>}
Titles == {<<"H", "e", "l", "p">>}
Widths == {0, 20}
Heights == {0, 4}

\* lipgloss styles: rendered text is a sequence of lines, a line a sequence of
\* cells, a cell a character with the style it is drawn in
PlainStyle == [bold |-> FALSE, italic |-> FALSE, fg |-> NoColor, bg |-> NoColor]
KeyStyle == [bold |-> TRUE, italic |-> FALSE, fg |-> White, bg |-> NoColor]
DescriptionStyle == [bold |-> FALSE, italic |-> FALSE, fg |-> White, bg |-> NoColor]
TitleStyle(titleColor) ==
    [bold |-> TRUE, italic |-> TRUE,
     fg |-> titleColor.Foreground, bg |-> titleColor.Background]

Cells(text, st) == [i \in 1..Len(text) |-> [ch |-> text[i], st |-> st]]
Spaces(n, st) == [i \in 1..n |-> [ch |-> " ", st |-> st]]
PadRight(line, w, st) ==
    IF Len(line) >= w THEN line ELSE line \o Spaces(w - Len(line), st)

RECURSIVE Widest(_)
Widest(lines) ==
    IF lines = <<>> THEN 0 ELSE Max(Len(Head(lines)), Widest(Tail(lines)))

\* a line longer than w continues on the next line
RECURSIVE Wrap(_, _)
Wrap(line, w) ==
    IF Len(line) <= w
    THEN <<line>>
    ELSE <<SubSeq(line, 1, w)>> \o Wrap(SubSeq(line, w + 1, Len(line)), w)

RECURSIVE WrapAll(_, _)
WrapAll(lines, w) ==
    IF lines = <<>> THEN <<>> ELSE Wrap(Head(lines), w) \o WrapAll(Tail(lines), w)

\* Style.Width(w).Height(h).Render: 0 leaves the dimension as it is; else the
\* lines are wrapped at w and filled up to w, and there are h lines at least
RenderSized(lines, w, h, st) ==
    LET wrapped == IF w = 0 THEN lines ELSE WrapAll(lines, w)
        high == IF Len(wrapped) >= h
                THEN wrapped
                ELSE wrapped \o [i \in 1..(h - Len(wrapped)) |-> <<>>]
    IN  IF w = 0 /\ h = 0
        THEN high
        ELSE [i \in 1..Len(high) |-> PadRight(high[i], Max(w, Widest(high)), st)]

\* lipgloss.JoinHorizontal(lipgloss.Top, l, r)
JoinHorizontal(l, r) ==
    LET line(x, i) == IF i <= Len(x) THEN x[i] ELSE <<>>
    IN  [i \in 1..Max(Len(l), Len(r)) |->
            PadRight(line(l, i), Widest(l), PlainStyle)
                \o PadRight(line(r, i), Widest(r), PlainStyle)]

\* lipgloss.JoinVertical(lipgloss.Top, t, u)
JoinVertical(t, u) ==
    LET all == t \o u
    IN  [i \in 1..Len(all) |-> PadRight(all[i], Widest(all), PlainStyle)]

\* the loop over the entries: every row ends its line
RECURSIVE helpRows(_)
helpRows(entries) ==
    IF entries = <<>>
    THEN <<>>
    ELSE LET content == Head(entries)
             keyText == RenderSized(<<Cells(content.Key, KeyStyle)>>, keyWidth, 0, KeyStyle)
             descriptionText == <<Cells(content.Description, DescriptionStyle)>>
             row == JoinHorizontal(keyText, descriptionText)
         IN  row \o helpRows(Tail(entries))

\* the title between one space on each side, over a bottom border
titleTextOf(title, titleColor) ==
    <<Spaces(1, TitleStyle(titleColor)) \o Cells(title, TitleStyle(titleColor))
          \o Spaces(1, TitleStyle(titleColor)),
      [i \in 1..(Len(title) + 2) |-> [ch |-> "-", st |-> PlainStyle]]>>

generateHelpScreen(title, titleColor, entries, width, height) ==
    LET helpScreen == helpRows(entries) \o << <<>> >>
        titleText == titleTextOf(title, titleColor)
    IN  RenderSized(JoinVertical(titleText, helpScreen), width, height, PlainStyle)

\* viewport.Model
maxYOffset(v) == Max(0, Len(v.lines) - v.Height)

ViewportSetContent(v, s) ==
    LET w == [v EXCEPT !.lines = s]
    IN  IF w.YOffset > Len(s) - 1 THEN [w EXCEPT !.YOffset = maxYOffset(w)] ELSE w

ViewportGotoTop(v) == [v EXCEPT !.YOffset = 0]

ViewportNew(w, h) == [Width |-> w, Height |-> h, YOffset |-> 0, lines |-> <<>>]

HelpMsgs == {"up", "down", "other"}

ViewportUpdate(v, m) ==
    CASE m = "down" ->
            IF v.YOffset >= maxYOffset(v) THEN v ELSE [v EXCEPT !.YOffset = @ + 1]
      [] m = "up" -> IF v.YOffset <= 0 THEN v ELSE [v EXCEPT !.YOffset = @ - 1]
      [] OTHER -> v

\* help.New
HelpNew(active, borderless, title, titleColor, borderColor, entries) ==
    [Viewport |-> ViewportSetContent(ViewportNew(0, 0),
                      generateHelpScreen(title, titleColor, entries, 0, 0)),
     Entries |-> entries,
     Title |-> title,
     Active |-> active,
     Borderless |-> borderless,
     BorderColor |-> borderColor,
     TitleColor |-> titleColor]

\* a call that takes the border off the width
helpScreenOfFramed(mm) ==
    generateHelpScreen(mm.Title, mm.TitleColor, mm.Entries,
                       IF mm.Borderless THEN mm.Viewport.Width
                                        ELSE Max(0, mm.Viewport.Width - 2),
                       mm.Viewport.Height)

\* the model's call of generateHelpScreen
helpScreenOf(mm) ==
    generateHelpScreen(mm.Title, mm.TitleColor, mm.Entries,
                       mm.Viewport.Width, mm.Viewport.Height)

HelpSetSize(mm, w, h) ==
    LET sized == [mm EXCEPT !.Viewport.Width = w, !.Viewport.Height = h]
    IN  [sized EXCEPT !.Viewport = ViewportSetContent(@, helpScreenOf(sized))]

HelpSetBorderColor(mm, color) == [mm EXCEPT !.BorderColor = color]

HelpSetIsActive(mm, active) == [mm EXCEPT !.Active = active]

HelpGotoTop(mm) == [mm EXCEPT !.Viewport = ViewportGotoTop(@)]

\* the title colour changes and the content stays as it was rendered
HelpSetTitleColorStale(mm, color) == [mm EXCEPT !.TitleColor = color]

HelpSetTitleColor(mm, color) ==
    LET coloured == [mm EXCEPT !.TitleColor = color]
    IN  [coloured EXCEPT !.Viewport = ViewportSetContent(@, helpScreenOf(coloured))]

HelpSetBorderless(mm, borderless) == [mm EXCEPT !.Borderless = borderless]

\* an Update that passes every message on
HelpUpdateAlways(mm, m) ==
    [m |-> [mm EXCEPT !.Viewport = ViewportUpdate(@, m)], cmds |-> <<Nil>>, fwd |-> TRUE]

\* help Model.Update: the model, the commands batched and whether the
\* viewport received the message
HelpUpdate(mm, m) ==
    IF mm.Active
    THEN [m |-> [mm EXCEPT !.Viewport = ViewportUpdate(@, m)], cmds |-> <<Nil>>, fwd |-> TRUE]
    ELSE [m |-> mm, cmds |-> <<>>, fwd |-> FALSE]

\* tea.Batch: nil when no command of the batch is one
Batch(cs) == IF \A i \in 1..Len(cs) : cs[i] = Nil THEN Nil ELSE [type |-> "batch", cmds |-> cs]

\* a call of generateHelpScreen: what it was given and what it returned
Rendering(mm) ==
    [title |-> mm.Title, titleColor |-> mm.TitleColor, entries |-> mm.Entries,
     width |-> mm.Viewport.Width, height |-> mm.Viewport.Height,
     out |-> helpScreenOf(mm)]

\* the last two calls
Rendered(rs, mm) == IF Len(rs) < 2 THEN Append(rs, Rendering(mm)) ELSE <<rs[2], Rendering(mm)>>

HelpState(mm, op, cmd, forwarded, rs) ==
    [m |-> mm, op |-> op, cmd |-> cmd, fwd |-> forwarded, renders |-> rs]

\* the help bubble as New leaves it
InitHelp(active, borderless, title, titleColor, borderColor, entries) ==
    LET mm == HelpNew(active, borderless, title, titleColor, borderColor, entries)
    IN  HelpState(mm, "New", Nil, FALSE, Rendered(<<>>, mm))

\* ------------------------------------------------ filetree package style
\* two bubbles of one program, and the sizes the host program gives them
Instances == {"A", "B"}
Sizes == {[width |-> 20, height |-> 10], [width |-> 40, height |-> 20]}

\* the frame of bubbleStyle and the rows the prompt takes below the listing
FrameSizes == {[horizontal |-> 0, vertical |-> 0], [horizontal |-> 2, vertical |-> 2]}
InputRows == {1, 2}

\* bubbleStyle.GetFrameSize
GetFrameSize(bubbleStyle) == bubbleStyle.frame

\* Bubble.SetSize: the listing gets what the frame and the prompt leave
SetSize(st, inst, width, height) ==
    LET frame == GetFrameSize(st.bubbleStyle)
    IN  [st EXCEPT !.list[inst] =
            [width |-> width - frame.horizontal,
             height |-> height - frame.vertical - st.inputRows]]

\* the copy with the colour is made and dropped
SetBorderColorDropped(st, color) == st

\* Bubble.SetBorderColor: the package's bubbleStyle becomes a copy of itself
\* with the colour
SetBorderColor(st, color) == [st EXCEPT !.bubbleStyle.borderForeground = color]

\* the border colour a bubble is drawn with: that of bubbleStyle
BorderColorOf(st, inst) == st.bubbleStyle.borderForeground

NoCall == [name |-> "New", inst |-> "", color |-> NoColor]

InitStyle(frame, rows) ==
    [bubbleStyle |-> [borderForeground |-> NoColor, frame |-> frame],
     inputRows |-> rows,
     list |-> [i \in Instances |-> [width |-> 0, height |-> 0]],
     op |-> NoCall,
     last |-> NoColor]

\* the bubble as New leaves it
InitBubble ==
    [state |-> idleState, focus |-> FALSE, value |-> <<>>, placeholder |-> "",
     showHidden |-> FALSE, items |-> <<>>, cursor |-> 0, statusMessage |-> NoStatus]

\* Bubble.Init returns the listing of the current directory
InitFiletree ==
    /\ b = InitBubble
    /\ cmds = <<getDirectoryListingCmd(CurrentDirectory, b.showHidden)>>
    /\ fwd = "none"
    /\ msg = NoMsg
    /\ ran = <<>>
    /\ sel = NoFileName

\* the help bubble of the program that shows the file tree
InitHelpOne ==
    help = InitHelp(FALSE, FALSE, <<"H", "e", "l", "p">>,
                    [Background |-> "62", Foreground |-> "230"], "63", <<>>)

InitStyleOne == style = InitStyle([horizontal |-> 2, vertical |-> 2], 1)

Init == InitFiletree /\ InitHelpOne /\ InitStyleOne

Next == Key \/ RunCommand \/ ListingReady \/ Failure \/ ClipboardResult \/ StatusTimeout

Spec == Init /\ [][Next]_vars

\* ------------------------------------------------------------------ claims
IsKey(m, bind) == m.type = "tea.KeyMsg" /\ m.bind = bind

PlaceholderOf(state) ==
    CASE state = createFileState -> CreateFilePlaceholder
      [] state = createDirectoryState -> CreateDirectoryPlaceholder
      [] state = deleteItemState -> DeleteItemPlaceholder
      [] OTHER -> ""

\* the commands of a batch, those inside a sequence included
Flat(cs) ==
    {cs[i] : i \in 1..Len(cs)}
        \cup UNION {{cs[i].cmds[1], cs[i].cmds[2]} :
                      i \in {j \in 1..Len(cs) : cs[j].kind = "tea.Sequentially"}}

IssuesMutation(cs) == \E c \in Flat(cs) : c.kind \in MutatingKinds

\* C1: a submit key received in a mode that is not idle leaves the bubble
\* idle, with the prompt's text cleared and the prompt not focused.
C1_SubmitReturnsToIdle ==
    [][(IsKey(msg', "submitInputKey") /\ b.state # idleState)
          => (b'.state = idleState /\ b'.value = <<>> /\ ~b'.focus)]_vars

\* C5: in every state whose mode is not idle, one escape key brings the mode
\* back to idle, whether the prompt is focused or not.
C5_EscapeReturnsToIdle ==
    [][(IsKey(msg', "escapeKey") /\ b.state # idleState) => b'.state = idleState]_vars

\* C4: an escape key received while the prompt is focused leaves the bubble
\* idle, the prompt's text empty and the prompt not focused, and no command
\* is issued.
C4_EscapeClearsPrompt ==
    [][(IsKey(msg', "escapeKey") /\ b.focus)
          => /\ b'.state = idleState
             /\ b'.value = <<>>
             /\ ~b'.focus
             /\ cmds' = <<>>]_vars

\* an escape key took the bubble out of the delete confirmation
C4_Witness ==
    /\ IsKey(msg, "escapeKey")
    /\ b.state = idleState
    /\ b.placeholder = DeleteItemPlaceholder
    /\ ~b.focus
    /\ b.value = <<>>

\* the refresh that follows a mutating command: the listing of the current
\* directory, with the bubble's hidden-files flag
Refresh == getDirectoryListingCmd(CurrentDirectory, b.showHidden)

\* the batch of a mutating action holds one sequence, the mutating command
\* and then the refresh, and no other listing or mutating command
C2_Batch ==
    IssuesMutation(cmds) =>
        /\ \A i \in 1..Len(cmds) :
              /\ cmds[i].kind \notin MutatingKinds \cup {"getDirectoryListingCmd"}
              /\ cmds[i].kind = "tea.Sequentially" =>
                    /\ cmds[i].cmds[1].kind \in MutatingKinds
                    /\ cmds[i].cmds[2] = Refresh
        /\ Cardinality({i \in 1..Len(cmds) : cmds[i].kind = "tea.Sequentially"}) = 1

\* C2, as the claim has it: every mutating action is followed by exactly one
\* refresh of the current directory, issued after the mutating command, and
\* the refresh is issued also when the mutating command ends with an error.
C2_RefreshUnconditional ==
    /\ C2_Batch
    /\ (ran # <<>> /\ ran[1].cmd.kind \in MutatingKinds) =>
          /\ Len(ran) = 2
          /\ ran[2].cmd.kind = "getDirectoryListingCmd"

\* C2, amended: every mutating action issues one sequence of the mutating
\* command and the refresh of the current directory; the refresh runs after
\* the mutating command when that command returns no message, and does not
\* run when it returns an error.
C2_RefreshAfterSuccess ==
    /\ C2_Batch
    /\ (ran # <<>> /\ ran[1].cmd.kind \in MutatingKinds) =>
          IF ran[1].returned = "nil"
          THEN /\ Len(ran) = 2
               /\ ran[2].cmd = getDirectoryListingCmd(CurrentDirectory, ran[2].cmd.showHidden)
          ELSE /\ Len(ran) = 1
               /\ ran[1].returned = "errorMsg"
               /\ msg.type = "errorMsg"

\* a confirmed delete ran, and the refresh after it
C2_Witness ==
    /\ Len(ran) = 2
    /\ ran[1].cmd.kind = "deleteItemCmd"
    /\ ran[1].cmd.name = "b"
    /\ ran[2].cmd.name = CurrentDirectory
    /\ msg.type = "getDirectoryListingMsg"

\* C3: a submit key in the delete confirmation issues a delete exactly when
\* the prompt's text, lower-cased, is "y"; with any other text it issues no
\* command and shows no status message.
C3_DeleteOnlyOnY ==
    [][(IsKey(msg', "submitInputKey") /\ b.state = deleteItemState)
          => IF b.value \in {<<"y">>, <<"Y">>}
             THEN \E c \in Flat(cmds') :
                     c = deleteItemCmd(GetSelectedItem(b))
             ELSE /\ cmds' = <<>>
                  /\ b'.statusMessage = b.statusMessage]_vars

\* a delete confirmed with "Y" was issued
C3_Witness ==
    /\ IsKey(msg, "submitInputKey")
    /\ b.state = deleteItemState
    /\ deleteItemCmd("a") \in Flat(cmds)
    /\ b.statusMessage.text = "Successfully deleted item"

\* the prompt is focused only in a mode that is not idle, and shows that
\* mode's placeholder
C6_OnePrompt ==
    /\ b.state \in States
    /\ b.focus => (b.state # idleState /\ b.placeholder = PlaceholderOf(b.state))

\* C6: the mode is always one of the four; whenever the prompt is focused the
\* mode is not idle and the placeholder is that mode's; a new-file,
\* new-directory or delete key received while the prompt is focused changes
\* neither the mode nor the placeholder.
C6_ModeAndPrompt ==
    /\ []C6_OnePrompt
    /\ [][(b.focus /\ msg'.type = "tea.KeyMsg"
              /\ msg'.bind \in {"createFileKey", "createDirectoryKey", "deleteItemKey"})
            => (b'.state = b.state /\ b'.placeholder = b.placeholder)]_vars

\* a new-file key arrived while the delete confirmation was focused
C6_Witness ==
    /\ IsKey(msg, "createFileKey")
    /\ b.focus
    /\ b.state = deleteItemState
    /\ b.placeholder = DeleteItemPlaceholder

ActionKeys ==
    { "openDirectoryKey", "copyItemKey", "zipItemKey", "unzipItemKey",
      "toggleHiddenKey", "homeShortcutKey", "copyToClipboardKey" }

C8_TwoToggles ==
    ~b.focus =>
        \A k1, k2 \in {k \in KeyMsgs : k.bind = "toggleHiddenKey"} :
            \A r1 \in Update(b, k1) :
                \A r2 \in Update(r1.b, k2) : r2.b.showHidden = b.showHidden

\* C8: a toggle-hidden key received while the prompt is not focused inverts
\* the hidden-files flag and issues one command, the listing of the current
\* directory with the new flag; two toggles in a row restore the flag.
C8_ToggleHidden ==
    /\ []C8_TwoToggles
    /\ [][(IsKey(msg', "toggleHiddenKey") /\ ~b.focus)
            => /\ b'.showHidden = ~b.showHidden
               /\ cmds' = <<getDirectoryListingCmd(CurrentDirectory, b'.showHidden)>>]_vars

\* hidden files were switched on
C8_Witness ==
    /\ IsKey(msg, "toggleHiddenKey")
    /\ b.showHidden
    /\ ~b.focus
    /\ cmds = <<getDirectoryListingCmd(CurrentDirectory, TRUE)>>

\* C9: the status message of a mutating action comes after the mutating
\* command and the refresh that follows it, for each of the six actions.
C9_StatusAfterRefresh ==
    \A i, j \in 1..Len(cmds) :
        (cmds[i].kind = "tea.Sequentially" /\ cmds[j].kind = "list.NewStatusMessage")
            => i < j

\* C10: an error message produces one error status message and nothing else:
\* the listing, the mode, the prompt and the hidden-files flag stay as they
\* are, the only command returned is the status message's, and the message is
\* passed to neither widget.
C10_ErrorOnlyStatus ==
    [][msg'.type = "errorMsg"
          => /\ cmds' = <<StatusCmd(statusMessageErrorStyle(ErrorMsg.text))>>
             /\ fwd' = "none"
             /\ b' \in {b, NewStatusMessage(b, statusMessageErrorStyle(ErrorMsg.text))}]_vars

\* an error arrived while a name was being typed
C10_Witness ==
    /\ msg.type = "errorMsg"
    /\ b.state = createFileState
    /\ b.focus
    /\ Len(b.value) = MaxLen
    /\ b.statusMessage = statusMessageErrorStyle(ErrorMsg.text)
    /\ fwd = "none"

StateOf(bind) ==
    CASE bind = "createFileKey" -> createFileState
      [] bind = "createDirectoryKey" -> createDirectoryState
      [] bind = "deleteItemKey" -> deleteItemState

\* C11: from idle, the new-file key leads to createFileState, the
\* new-directory key to createDirectoryState and the delete key to
\* deleteItemState; the prompt is focused with that mode's placeholder and
\* still empty, the key reaches neither widget, and no filesystem command is
\* issued.
C11_PromptOpens ==
    [][(msg'.type = "tea.KeyMsg"
          /\ msg'.bind \in {"createFileKey", "createDirectoryKey", "deleteItemKey"}
          /\ b.state = idleState)
          => /\ b'.state = StateOf(msg'.bind)
             /\ b'.focus
             /\ b'.placeholder = PlaceholderOf(b'.state)
             /\ b'.value = <<>>
             /\ fwd' = "none"
             /\ \A c \in Flat(cmds') : c.kind \notin FsKinds \cup MutatingKinds
             /\ b'.items = b.items
             /\ b'.cursor = b.cursor
             /\ b'.showHidden = b.showHidden]_vars

\* the delete key opened the confirmation on the second entry
C11_Witness ==
    /\ IsKey(msg, "deleteItemKey")
    /\ b.state = deleteItemState
    /\ b.focus
    /\ b.value = <<>>
    /\ b.placeholder = DeleteItemPlaceholder
    /\ b.cursor = 1
    /\ fwd = "none"
    /\ cmds = <<Blink>>

\* C15: every listing message replaces the listing shown with the entries it
\* carries, in every mode, one without entries included; the listing shown is
\* that of the message that arrived last.
C15_ListingReplaced ==
    \A m \in ListingMsgs : \A r \in Update(b, m) : r.b.items = m.items

\* C16: the entry a confirmed delete is issued for is the entry that was
\* highlighted when the delete key opened the confirmation, whatever listing
\* arrives while the prompt is open.
C16_DeleteTargetStable ==
    (~b.focus /\ HasSelectedItem(b)) =>
        \A k \in {x \in KeyMsgs : x.bind = "deleteItemKey"} :
        \A r1 \in Update(b, k) :
        \A m \in ListingMsgs :
        \A r2 \in Update(r1.b, m) :
        \A r3 \in Update(r2.b, [type |-> "tea.KeyMsg", bind |-> "none", ch |-> "y"]) :
        \A s \in {x \in KeyMsgs : x.bind = "submitInputKey"} :
        \A r4 \in Update(r3.b, s) :
            deleteItemCmd(GetSelectedItem(b)) \in Flat(r4.cmds)

\* C17: a submit key received while the prompt is not focused issues no
\* command, shows no status message and leaves the bubble as it is.
C17_SubmitWithoutPrompt ==
    [][(IsKey(msg', "submitInputKey") /\ ~b.focus)
          => (cmds' = <<>> /\ b' = b)]_vars

\* ------------------------------------------------- GetSelectedItem callers
\* listings the message type admits: a list.Item need not be an Item
AnyListings == Listings \cup {<<OtherItem>>, <<"a", OtherItem>>}

AnyListing == (\E l \in AnyListings : Call(ListingMsg(l, FALSE))) /\ ran' = <<>>

GetSelectedMsg == [type |-> "GetSelectedItem", bind |-> ""]

\* the host program asks for the selected item
GetSelected ==
    /\ sel' = GetSelectedItem(b)
    /\ msg' = GetSelectedMsg
    /\ UNCHANGED <<b, cmds, fwd, ran, help, style>>

\* the keys the listing moves its cursor on, bound ones included
CursorKey == (\E k \in {x \in KeyMsgs : x.ch \in {"up", "down"}} : Call(k)) /\ ran' = <<>>

NextSelect == CursorKey \/ ListingReady \/ AnyListing \/ GetSelected

SpecSelect == Init /\ [][NextSelect]_vars

\* C12: GetSelectedItem returns the entry under the cursor when that entry is
\* an Item, and the zero Item when the cursor is on no entry or on an entry
\* of another type; it can always be called and changes nothing of the bubble.
C12_GetSelectedItem ==
    /\ [](ENABLED GetSelected)
    /\ [][msg' = GetSelectedMsg
            => /\ b' = b
               /\ sel' = IF /\ b.cursor + 1 \in DOMAIN b.items
                            /\ b.items[b.cursor + 1] # OtherItem
                         THEN b.items[b.cursor + 1]
                         ELSE NoFileName]_vars

\* asked with the cursor beyond the last entry of a listing that got shorter
C12_Witness ==
    /\ msg = GetSelectedMsg
    /\ b.items = <<"a">>
    /\ b.cursor = 1
    /\ sel = NoFileName

\* ------------------------------------------------------ help bubble callers
filetree == <<b, cmds, fwd, msg, ran, sel, style>>

SetSizeCall ==
    \E w \in Widths, h \in Heights :
        LET mm == HelpSetSize(help.m, w, h)
        IN  /\ help' = HelpState(mm, "SetSize", Nil, FALSE, Rendered(help.renders, mm))
            /\ UNCHANGED filetree

SetBorderColorCall ==
    \E color \in AdaptiveColors :
        /\ help' = HelpState(HelpSetBorderColor(help.m, color), "SetBorderColor", Nil,
                             FALSE, help.renders)
        /\ UNCHANGED filetree

SetIsActiveCall ==
    \E active \in BOOLEAN :
        /\ help' = HelpState(HelpSetIsActive(help.m, active), "SetIsActive", Nil,
                             FALSE, help.renders)
        /\ UNCHANGED filetree

GotoTopCall ==
    /\ help' = HelpState(HelpGotoTop(help.m), "GotoTop", Nil, FALSE, help.renders)
    /\ UNCHANGED filetree

SetTitleColorCall ==
    \E color \in TitleColors :
        LET mm == HelpSetTitleColor(help.m, color)
        IN  /\ help' = HelpState(mm, "SetTitleColor", Nil, FALSE,
                                 Rendered(help.renders, mm))
            /\ UNCHANGED filetree

SetBorderlessCall ==
    \E borderless \in BOOLEAN :
        /\ help' = HelpState(HelpSetBorderless(help.m, borderless), "SetBorderless", Nil,
                             FALSE, help.renders)
        /\ UNCHANGED filetree

UpdateCall ==
    \E m \in HelpMsgs :
        LET r == HelpUpdate(help.m, m)
        IN  /\ help' = HelpState(r.m, "Update", Batch(r.cmds), r.fwd, help.renders)
            /\ UNCHANGED filetree

InitHelpAny ==
    /\ InitFiletree
    /\ InitStyleOne
    /\ \E active \in BOOLEAN, borderless \in BOOLEAN, title \in Titles,
          titleColor \in TitleColors, borderColor \in AdaptiveColors,
          entries \in EntryLists :
          help = InitHelp(active, borderless, title, titleColor, borderColor, entries)

NextHelp ==
    \/ SetSizeCall
    \/ SetBorderColorCall
    \/ SetIsActiveCall
    \/ GotoTopCall
    \/ SetTitleColorCall
    \/ SetBorderlessCall
    \/ UpdateCall

SpecHelp == InitHelpAny /\ [][NextHelp]_vars

\* C13: an Update of an inactive help bubble returns the model it was called
\* on and no command, and the viewport gets the message exactly when the
\* bubble is active.
C13_InactiveIgnores ==
    [][help'.op = "Update"
          => /\ help'.fwd = help.m.Active
             /\ ~help.m.Active => (help'.m = help.m /\ help'.cmd = Nil)]_vars

\* a scrolled help bubble, made inactive, received a message
C13_Witness ==
    /\ help.op = "Update"
    /\ ~help.m.Active
    /\ ~help.fwd
    /\ help.m.Viewport.YOffset > 0

SameFourInputs(r, q) ==
    /\ r.title = q.title
    /\ r.entries = q.entries
    /\ r.width = q.width
    /\ r.height = q.height

C19_ContentFollowsModel ==
    /\ [](/\ help.m.Viewport.lines
               = generateHelpScreen(help.m.Title, help.m.TitleColor, help.m.Entries,
                                    help.m.Viewport.Width, help.m.Viewport.Height)
          /\ help.op = "New" => (help.m.Viewport.Width = 0 /\ help.m.Viewport.Height = 0))
    /\ [][/\ help'.op = "SetBorderColor"
               => help'.m = [help.m EXCEPT !.BorderColor = help'.m.BorderColor]
          /\ help'.op = "SetIsActive"
               => help'.m = [help.m EXCEPT !.Active = help'.m.Active]
          /\ help'.op = "SetBorderless"
               => help'.m = [help.m EXCEPT !.Borderless = help'.m.Borderless]]_vars

\* a sized help bubble with entries was given the second title colour
C19_Witness ==
    /\ help.op = "SetTitleColor"
    /\ help.m.Viewport.Width = 20
    /\ help.m.Viewport.Height = 4
    /\ help.m.Entries # <<>>
    /\ help.m.TitleColor.Background = "212"
    /\ help.m.Viewport.lines[1][2].st.bg = "212"

\* --------------------------------------------------- two filetree bubbles
BubbleSetBorderColor ==
    \E inst \in Instances, color \in AdaptiveColors :
        /\ style' = [SetBorderColor(style, color) EXCEPT
                        !.op = [name |-> "SetBorderColor", inst |-> inst, color |-> color],
                        !.last = color]
        /\ UNCHANGED <<b, cmds, fwd, msg, ran, sel, help>>

BubbleSetSize ==
    \E inst \in Instances, size \in Sizes :
        /\ style' = [SetSize(style, inst, size.width, size.height) EXCEPT
                        !.op = [name |-> "SetSize", inst |-> inst, color |-> NoColor]]
        /\ UNCHANGED <<b, cmds, fwd, msg, ran, sel, help>>

InitStyleAny ==
    /\ InitFiletree
    /\ InitHelpOne
    /\ \E frame \in FrameSizes, rows \in InputRows : style = InitStyle(frame, rows)

NextStyle == BubbleSetBorderColor \/ BubbleSetSize

SpecStyle == InitStyleAny /\ [][NextStyle]_vars

\* C18: SetBorderColor on one bubble changes the package's border style and no
\* field of a bubble; every bubble is drawn with the border colour of the
\* latest SetBorderColor call, whichever bubble it was made on.
C18_SharedBorderColor ==
    /\ [](style.last # NoColor
            => \A inst \in Instances : BorderColorOf(style, inst) = style.last)
    /\ [][style'.op.name = "SetBorderColor"
            => /\ style'.list = style.list
               /\ b' = b
               /\ style'.bubbleStyle.frame = style.bubbleStyle.frame
               /\ \A inst \in Instances :
                     BorderColorOf(style', inst) = style'.op.color]_vars

\* SetBorderColor on A after B was sized: B is drawn with A's colour
C18_Witness ==
    /\ style.op = [name |-> "SetBorderColor", inst |-> "A", color |-> "212"]
    /\ style.list["B"].width = 38
    /\ style.list["A"].width = 0
    /\ BorderColorOf(style, "B") = "212"

====
